---- MODULE Spec2Model ----
(***************************************************************************)
(* A model of utils.py of pynn: the dropout mask generator bernoulli, the  *)
(* training driver SGD.train, the batch step SGD.batch_gradient_descent    *)
(* and SGD.backprop.                                                       *)
(*                                                                         *)
(* Conventions of the model.                                               *)
(*  - An array is a sequence of rows, every vector a column (n rows of one *)
(*    entry), as in the Nielsen code the file cites.  Entries are          *)
(*    integers: the integers are a subset of the numbers the code accepts, *)
(*    and for them every operation of the code is exact.                   *)
(*  - Err (the empty sequence) is the value of an array operation that     *)
(*    raises; every operation passes it on, as an exception passes up      *)
(*    through the expression that holds the call.                          *)
(*  - An operation numpy applies to two per-layer lists (ber[1:] with      *)
(*    nabla_t, net.theta with v, ...) acts layer by layer, and inside a    *)
(*    layer it follows numpy's broadcasting of two 2-d arrays.  The mask   *)
(*    row of a layer is taken as a column: one entry per neuron of that    *)
(*    layer, that is per row of the matrix feeding into it.                *)
(*  - Sequences are 1-based: python's ber[k] is ber[k+1] here, python's    *)
(*    theta[k] (the matrix into layer k+1) is theta[k+1], and python's     *)
(*    xs[-l] is xs[Len(xs)+1-l].                                           *)
(*  - Names the interpreter cannot resolve are read as the names they      *)
(*    stand for: bath_gradient_descent (201) as batch_gradient_descent,    *)
(*    called with p between mu and v; w.shape (218, 243) as t.shape;       *)
(*    nable_b (259) and babla_b (266) as nabla_b; thata (262) as theta;    *)
(*    the call z(...) at 252 as the module function z.  What is modelled   *)
(*    is the algorithm the statements spell out.                           *)
(***************************************************************************)
EXTENDS Integers, Sequences, FiniteSets, TLC

VARIABLES net, trainingData, args, pc, fr, outcome, last, bs

vars == <<net, trainingData, args, pc, fr, outcome, last, bs>>

(***************************************************************************)
(* Bounds of the model.                                                    *)
(***************************************************************************)
MaxLayers == 3
MaxSize == 2
MaxN == 3
MaxEpochs == 2
MaxBatchSize == 2
MaxBatch == 2

(***************************************************************************)
(* numpy on 2-d integer arrays.                                            *)
(***************************************************************************)
Err == <<>>

\* a list held as a value: its entries are computed once, when it is built
List(xs) == xs \o <<>>

Max(a, b) == IF a >= b THEN a ELSE b

Rows(A) == Len(A)

Cols(A) == Len(A[1])

\* two dimensions broadcast together when they are equal or one of them is 1
BroadcastOK(a, b) == a = b \/ a = 1 \/ b = 1

BIdx(n, i) == IF n = 1 THEN 1 ELSE i

Elementwise(op(_, _), A, B) ==
    IF A = Err \/ B = Err THEN Err
    ELSE IF ~BroadcastOK(Rows(A), Rows(B)) \/ ~BroadcastOK(Cols(A), Cols(B)) THEN Err
    ELSE List([i \in 1..Max(Rows(A), Rows(B)) |->
            List([j \in 1..Max(Cols(A), Cols(B)) |->
                op(A[BIdx(Rows(A), i)][BIdx(Cols(A), j)],
                   B[BIdx(Rows(B), i)][BIdx(Cols(B), j)])])])

Times(a, b) == a * b

Plus(a, b) == a + b

Minus(a, b) == a - b

np_multiply(A, B) == Elementwise(Times, A, B)

np_add(A, B) == Elementwise(Plus, A, B)

np_sub(A, B) == Elementwise(Minus, A, B)

\* np.multiply(k, A) with a number k
Scale(k, A) == IF A = Err THEN Err
               ELSE List([i \in 1..Rows(A) |-> List([j \in 1..Cols(A) |-> k * A[i][j]])])

np_transpose(A) == IF A = Err THEN Err
                   ELSE List([j \in 1..Cols(A) |-> List([i \in 1..Rows(A) |-> A[i][j]])])

RECURSIVE DotSum(_, _, _, _, _)
DotSum(A, B, i, j, k) ==
    IF k = 0 THEN 0 ELSE A[i][k] * B[k][j] + DotSum(A, B, i, j, k - 1)

np_dot(A, B) ==
    IF A = Err \/ B = Err THEN Err
    ELSE IF Cols(A) # Rows(B) THEN Err
    ELSE List([i \in 1..Rows(A) |->
                 List([j \in 1..Cols(B) |-> DotSum(A, B, i, j, Cols(A))])])

np_zeros(A) == List([i \in 1..Rows(A) |-> List([j \in 1..Cols(A) |-> 0])])

Shape(A) == <<Rows(A), Cols(A)>>

\* a python list of numbers as a column
Col(vec) == List([i \in 1..Len(vec) |-> <<vec[i]>>])

(***************************************************************************)
(* The same operations on per-layer lists; a layer that raises makes the   *)
(* whole expression raise.                                                 *)
(***************************************************************************)
AnyErr(L) == L = Err \/ \E l \in 1..Len(L) : L[l] = Err

Checked(L) == IF AnyErr(L) THEN Err ELSE L

LayerWise(op(_, _), LA, LB) ==
    IF AnyErr(LA) \/ AnyErr(LB) THEN Err
    ELSE Checked(List([l \in 1..Len(LA) |-> op(LA[l], LB[l])]))

ScaleL(k, LA) ==
    IF AnyErr(LA) THEN Err ELSE List([l \in 1..Len(LA) |-> Scale(k, LA[l])])

\* the masks ber[1:] as columns
MaskCols(ber) == List([l \in 1..(Len(ber) - 1) |-> Col(ber[l + 1])])

(***************************************************************************)
(* z(theta, x, bias): np.dot(theta, x) + bias.                             *)
(***************************************************************************)
z(theta, x, bias) == np_add(np_dot(theta, x), bias)

(***************************************************************************)
(* bernoulli(layers, p).  p is counted in halves: p = 2 is the             *)
(* probability 1.0, p = 1 is 0.5, p = 0 is 0.0, p = -1 and p = 3 lie       *)
(* outside [0, 1].  np.random.binomial(1, p) raises ValueError for p < 0   *)
(* and for p > 1; otherwise it returns 0 or 1, only 0 when p is 0 and      *)
(* only 1 when p is 1.                                                     *)
(***************************************************************************)
PValues == {-1, 0, 1, 2, 3}

BinomialRaises(p) == p < 0 \/ p > 2

Binomial(p) == IF p = 0 THEN {0} ELSE IF p = 2 THEN {1} ELSE {0, 1}

\* the rows drawn for the first k layers
RECURSIVE Drawn(_, _, _)
Drawn(layers, p, k) ==
    IF k = 0 THEN {<<>>}
    ELSE {Append(pre, row) : pre \in Drawn(layers, p, k - 1),
                              row \in [1..layers[k] -> Binomial(p)]}

Ones(n) == List([i \in 1..n |-> 1])

\* a bernoulli that draws the row of the output layer like the others
bernoulliDrawsOutput(layers, p) == Drawn(layers, p, Len(layers))

\* every value a call that returns can return
bernoulli(layers, p) ==
    {Append(pre, Ones(layers[Len(layers)])) : pre \in Drawn(layers, p, Len(layers) - 1)}

(***************************************************************************)
(* The strategies of the network: LinearActivation, ReLUActivation and     *)
(* SquaredErrorCost, applied entry by entry (net.sigmaVec,                 *)
(* net.sigmaPrimeVec, net.costPrimeVec).                                   *)
(***************************************************************************)
Activations == {"Linear", "ReLU"}

ActivationFn(sigma, w) ==
    IF sigma = "Linear" THEN w ELSE IF w <= 0 THEN 0 ELSE w

ActivationPrime(sigma, w) ==
    IF sigma = "Linear" THEN 1 ELSE IF w <= 0 THEN w ELSE 1

sigmaVec(sigma, A) ==
    IF A = Err THEN Err
    ELSE List([i \in 1..Rows(A) |->
                 List([j \in 1..Cols(A) |-> ActivationFn(sigma, A[i][j])])])

sigmaPrimeVec(sigma, A) ==
    IF A = Err THEN Err
    ELSE List([i \in 1..Rows(A) |->
                 List([j \in 1..Cols(A) |-> ActivationPrime(sigma, A[i][j])])])

\* SquaredErrorCost.prime(a, y) = a - y
costPrimeVec(a, y) == np_sub(a, y)

(***************************************************************************)
(* The network: layers (the sizes), theta (one matrix per transition),     *)
(* biases (one column per non-input layer), sigma (the activation).        *)
(***************************************************************************)
NumTheta(n) == Len(n.theta)

\* net.nl, the number of layers
nl(n) == Len(n.layers)

(***************************************************************************)
(* SGD.backprop(net, x, y, mu, v, ber).                                    *)
(***************************************************************************)
\* line 247: a = np.multiply(ber[1], x)
FirstActivation(x, ber) == np_multiply(Col(ber[2]), x)

\* lines 250-251: the matrices the forward pass multiplies by,
\* np.multiply(ber[1:], net.theta + np.multiply(mu, v))
ForwardTheta(n, mu, v, ber) ==
    LayerWise(np_multiply, MaskCols(ber), LayerWise(np_add, n.theta, ScaleL(mu, v)))

\* lines 253-255: a = net.sigmaVec(z); zl.append(z); al.append(a)
ForwardTurn(sigma, prev, zk) ==
    <<Append(prev[1], zk), Append(prev[2], sigmaVec(sigma, zk))>>

\* line 252: z = z(t, a, b), with the pair k of zip(net.biases, ...)
ForwardStep(n, ft, k, prev) ==
    ForwardTurn(n.sigma, prev,
                IF ft = Err THEN Err ELSE z(ft[k], prev[2][k], n.biases[k]))

\* lines 247-255: <<zl, al>> after the first k turns of the loop
RECURSIVE ForwardPass(_, _, _, _, _)
ForwardPass(n, ft, x, ber, k) ==
    IF k = 0 THEN <<<<>>, <<FirstActivation(x, ber)>>>>
    ELSE ForwardStep(n, ft, k, ForwardPass(n, ft, x, ber, k - 1))

\* lines 261-262: the matrix whose transpose carries the error back in the
\* turn l of the loop, np.multiply(ber[-l], net.theta[-l])
BackwardTheta(n, ber, l) ==
    np_multiply(Col(ber[Len(ber) + 1 - l]), n.theta[NumTheta(n) + 1 - l])

\* lines 257 and 261-263: delta after the turn l of the loop (l = 1: line 257)
RECURSIVE Delta(_, _, _, _, _, _)
Delta(n, y, ber, zl, al, l) ==
    IF l = 1
    THEN np_multiply(costPrimeVec(al[Len(al)], y), sigmaPrimeVec(n.sigma, zl[Len(zl)]))
    ELSE np_multiply(
             np_dot(np_transpose(BackwardTheta(n, ber, l)),
                    Delta(n, y, ber, zl, al, l - 1)),
             sigmaPrimeVec(n.sigma, zl[Len(zl) + 1 - l]))

\* lines 258 and 265: nabla_t[-1] takes al[-2], nabla_t[-l] takes al[-l]
NablaT(delta, al, l) ==
    np_dot(delta, np_transpose(al[Len(al) + 1 - (IF l = 1 THEN 2 ELSE l)]))

\* lines 259, 264: nabla_b; the turns l = 1 .. nl - 1 write the entries -l
Deltas(n, y, ber, zl, al) ==
    List([j \in 1..NumTheta(n) |-> Delta(n, y, ber, zl, al, nl(n) - j)])

\* lines 258, 265: nabla_t
NablaTs(d, al) == List([j \in 1..Len(d) |-> NablaT(d[j], al, Len(d) + 1 - j)])

\* the entry j is the matrix that carries the error of layer j+1 back to layer j
BackwardThetas(n, ber) ==
    List([j \in 1..(NumTheta(n) - 1) |-> BackwardTheta(n, ber, nl(n) - j)])

Both(A, B) == IF AnyErr(A) \/ AnyErr(B) THEN Err ELSE A

\* line 266, with what the call computed on the way
Returned(x, ber, ft, al, bt, d, nt) ==
    [raised   |-> AnyErr(nt) \/ AnyErr(d),
     nabla_t  |-> Both(nt, d),
     nabla_b  |-> Both(d, nt),
     x        |-> x,
     ber      |-> ber,
     al       |-> al,
     forward  |-> ft,
     backward |-> bt]

\* lines 258-265
Gradients(x, ber, ft, al, bt, d) == Returned(x, ber, ft, al, bt, d, NablaTs(d, al))

\* lines 256-265
BackwardPass(n, x, y, ber, ft, fw) ==
    Gradients(x, ber, ft, fw[2], BackwardThetas(n, ber), Deltas(n, y, ber, fw[1], fw[2]))

\* lines 247-266
ForwardBackward(n, x, y, ber, ft) ==
    BackwardPass(n, x, y, ber, ft, ForwardPass(n, ft, x, ber, NumTheta(n)))

backprop(n, x, y, mu, v, ber) ==
    ForwardBackward(n, x, y, ber, ForwardTheta(n, mu, v, ber))

(***************************************************************************)
(* SGD.batch_gradient_descent(net, batch, alpha, lmbda, mu, p, v), for the *)
(* mask ber that the call of bernoulli at line 219 returned.               *)
(***************************************************************************)
\* line 217: delta_t = [np.zeros(b.shape) for b in net.biases]
InitDeltaT(n) == List([l \in 1..NumTheta(n) |-> np_zeros(n.biases[l])])

\* line 218: delta_b = [np.zeros(t.shape) for t in net.theta]
InitDeltaB(n) == List([l \in 1..NumTheta(n) |-> np_zeros(n.theta[l])])

\* lines 222, 223: acc + np.multiply(ber[1:], nabla)
AddMasked(acc, ber, nabla) ==
    LayerWise(np_add, acc, LayerWise(np_multiply, MaskCols(ber), nabla))

\* line 223, after line 222 gave dt
AddGradients(prev, ber, r, dt) ==
    [delta_t |-> dt,
     delta_b |-> IF dt = Err THEN Err ELSE AddMasked(prev.delta_b, ber, r.nabla_b),
     calls   |-> Append(prev.calls, r)]

\* lines 221-223 for one example, r being what backprop returned; nothing
\* runs after a turn that raised
AddExample(prev, ber, r) ==
    IF prev.delta_t = Err \/ prev.delta_b = Err THEN prev
    ELSE AddGradients(prev, ber, r, AddMasked(prev.delta_t, ber, r.nabla_t))

\* lines 217-223: the accumulators and the backprop calls after k examples
RECURSIVE Accumulate(_, _, _, _, _, _)
Accumulate(n, batch, mu, v, ber, k) ==
    IF k = 0
    THEN [delta_t |-> InitDeltaT(n), delta_b |-> InitDeltaB(n), calls |-> <<>>]
    ELSE AddExample(Accumulate(n, batch, mu, v, ber, k - 1), ber,
                    backprop(n, batch[k][1], batch[k][2], mu, v, ber))

\* 1 / len(batch) of two python 2 integers
OneOver(m) == 1 \div m

\* lines 225-227
NewVelocity(n, m, alpha, lmbda, mu, v, delta_t) ==
    LayerWise(np_add, ScaleL(mu, v),
              ScaleL(alpha, LayerWise(np_add, ScaleL(OneOver(m), delta_t),
                                              ScaleL(lmbda, n.theta))))

\* lines 230-231
NewBiases(n, m, alpha, delta_b) ==
    LayerWise(np_sub, n.biases, ScaleL(alpha, ScaleL(OneOver(m), delta_b)))

\* how the call ends: what it raised, the network as it leaves it, the
\* velocity (returned when nothing was raised), and what the loop computed
Ended(raised, n, v, acc) ==
    [raised |-> raised, net |-> n, v |-> v, calls |-> acc.calls,
     delta_t |-> acc.delta_t, delta_b |-> acc.delta_b]

\* lines 230-232; n is the network after line 228
UpdateBiases(n, v, acc, vNew, bNew) ==
    IF bNew = Err THEN Ended("ValueError", n, v, acc)
    ELSE Ended("", [n EXCEPT !.biases = bNew], vNew, acc)

\* line 228: net.theta = net.theta - v
UpdateTheta(n, m, alpha, v, acc, vNew, tNew) ==
    IF tNew = Err THEN Ended("ValueError", n, v, acc)
    ELSE UpdateBiases([n EXCEPT !.theta = tNew], v, acc, vNew,
                      NewBiases(n, m, alpha, acc.delta_b))

\* lines 225-228
Update(n, m, alpha, v, acc, vNew) ==
    IF vNew = Err THEN Ended("ValueError", n, v, acc)
    ELSE UpdateTheta(n, m, alpha, v, acc, vNew, LayerWise(np_sub, n.theta, vNew))

\* lines 224-232, acc being what the loop left
AfterLoop(n, m, alpha, lmbda, mu, v, acc) ==
    IF acc.delta_t = Err \/ acc.delta_b = Err THEN Ended("ValueError", n, v, acc)
    ELSE IF m = 0 THEN Ended("ZeroDivisionError", n, v, acc)
    ELSE Update(n, m, alpha, v, acc,
                NewVelocity(n, m, alpha, lmbda, mu, v, acc.delta_t))

batch_gradient_descent(n, batch, alpha, lmbda, mu, v, ber) ==
    AfterLoop(n, Len(batch), alpha, lmbda, mu, v,
              Accumulate(n, batch, mu, v, ber, Len(batch)))

(***************************************************************************)
(* The state.                                                              *)
(*   net          the network the caller built                             *)
(*   trainingData the caller's list of (x, y) pairs                        *)
(*   args         the arguments of the call, with the network and the list *)
(*                as they were when it was made                            *)
(*   pc           where the call stands                                    *)
(*   fr           the locals of SGD.train                                  *)
(*   outcome      how the call ended                                       *)
(*   last         the latest run of batch_gradient_descent                 *)
(*   bs           what the call of bernoulli returned                      *)
(***************************************************************************)
LayerSeqs == UNION {[1..k -> 1..MaxSize] : k \in 2..MaxLayers}

\* the networks SGD.train is run on
TrainLayers == {<<1, 1>>, <<2, 1>>}

\* alpha, lmbda, mu of the runs of SGD.train
TrainHypers == {<<1, 0, 1>>, <<1, 1, 0>>}

WeightSeeds == {1, -1}

\* a network as its constructor leaves it: matrix k has layers[k+1] rows and
\* layers[k] columns, bias k has layers[k+1] rows
Network(layers, sigma, w) ==
    [layers |-> layers,
     sigma  |-> sigma,
     theta  |-> List([k \in 1..(Len(layers) - 1) |->
                   List([i \in 1..layers[k + 1] |->
                           List([j \in 1..layers[k] |-> w * k])])]),
     biases |-> List([k \in 1..(Len(layers) - 1) |->
                   List([i \in 1..layers[k + 1] |-> <<k - 1>>])])]

ExampleIds == {1, 2}

\* the training example e of a network: an input column and a target column
Example(layers, e) ==
    <<List([i \in 1..layers[1] |-> <<IF e = 1 THEN 1 ELSE i>>]),
      List([i \in 1..layers[Len(layers)] |-> <<e - 1>>])>>

Examples(layers) == {Example(layers, e) : e \in ExampleIds}

DataSets(layers) == UNION {[1..k -> Examples(layers)] : k \in 0..MaxN}

Batches(layers) == UNION {[1..k -> Examples(layers)] : k \in 0..MaxBatch}

\* alpha, lmbda, mu
Hypers == {<<1, 0, 0>>, <<1, 1, 1>>, <<2, 0, 1>>}

\* the velocity 0.0 of line 199, which broadcasts against every layer
ZeroV(n) == List([l \in 1..NumTheta(n) |-> <<<<0>>>>])

\* a velocity as an earlier batch step returns it, shaped like the weights
UnitV(n) == List([l \in 1..NumTheta(n) |-> np_add(Scale(0, n.theta[l]), <<<<1>>>>)])

NoArgs == [op |-> "none", epochs |-> 0, batchSize |-> 0, alpha |-> 0, lmbda |-> 0,
           mu |-> 0, p |-> 0, batch |-> <<>>, v |-> <<>>, net0 |-> <<>>, data0 |-> <<>>]

NoFrame == [n |-> 0, epoch |-> 0, mini_batches |-> <<>>, i |-> 0, v |-> <<>>]

NoCall == [count |-> 0, raised |-> "", batch |-> <<>>, v_in |-> <<>>, v_out |-> <<>>,
           net_in |-> <<>>, draws |-> <<>>, ber |-> <<>>, calls |-> <<>>,
           delta_t0 |-> <<>>, delta_b0 |-> <<>>, delta_t |-> <<>>, delta_b |-> <<>>,
           alpha |-> 0, lmbda |-> 0, mu |-> 0]

\* the caller is about to call SGD.train; line 192 has set n
InitTrain ==
    /\ \E layers \in TrainLayers :
          /\ net = Network(layers, "Linear", 1)
          /\ trainingData \in DataSets(layers)
    /\ \E epochs \in 0..MaxEpochs, batchSize \in (-1)..MaxBatchSize,
          h \in TrainHypers, p \in {0, 2, 3} :
          args = [NoArgs EXCEPT !.op = "train", !.epochs = epochs,
                                !.batchSize = batchSize, !.alpha = h[1],
                                !.lmbda = h[2], !.mu = h[3], !.p = p,
                                !.net0 = net, !.data0 = trainingData]
    /\ pc = "epoch"
    /\ fr = [NoFrame EXCEPT !.n = Len(trainingData)]
    /\ outcome = "none"
    /\ last = NoCall
    /\ bs = <<>>

\* the caller is about to call SGD.batch_gradient_descent
InitBatch ==
    /\ \E layers \in LayerSeqs, sigma \in Activations, w \in WeightSeeds :
          net = Network(layers, sigma, w)
    /\ trainingData = <<>>
    /\ \E batch \in Batches(net.layers), h \in Hypers, p \in PValues,
          v \in {ZeroV(net), UnitV(net)} :
          args = [NoArgs EXCEPT !.op = "batch", !.batch = batch, !.alpha = h[1],
                                !.lmbda = h[2], !.mu = h[3], !.p = p, !.v = v,
                                !.net0 = net, !.data0 = trainingData]
    /\ pc = "call"
    /\ fr = NoFrame
    /\ outcome = "none"
    /\ last = NoCall
    /\ bs = <<>>

\* the caller is about to call bernoulli
InitBernoulli ==
    /\ \E layers \in LayerSeqs : net = Network(layers, "Linear", 1)
    /\ trainingData = <<>>
    /\ \E p \in PValues :
          args = [NoArgs EXCEPT !.op = "bernoulli", !.p = p,
                                !.net0 = net, !.data0 = trainingData]
    /\ pc = "call"
    /\ fr = NoFrame
    /\ outcome = "none"
    /\ last = NoCall
    /\ bs = <<>>

Init == InitTrain \/ InitBatch \/ InitBernoulli

(***************************************************************************)
(* One run of batch_gradient_descent as an update of net and last; the     *)
(* velocity it returns is last'.v_out.  draws lists what the calls of      *)
(* bernoulli the run makes return (line 219).                              *)
(***************************************************************************)
Started(batch, alpha, lmbda, mu, v) ==
    [NoCall EXCEPT !.count = last.count + 1, !.batch = batch, !.v_in = v,
                   !.net_in = net, !.alpha = alpha, !.lmbda = lmbda, !.mu = mu,
                   !.delta_t0 = InitDeltaT(net), !.delta_b0 = InitDeltaB(net)]

Ran(batch, alpha, lmbda, mu, v, ber, r) ==
    /\ last' = [Started(batch, alpha, lmbda, mu, v) EXCEPT
                    !.raised = r.raised, !.v_out = r.v, !.ber = ber, !.draws = <<ber>>,
                    !.calls = r.calls, !.delta_t = r.delta_t, !.delta_b = r.delta_b]
    /\ net' = r.net

RunBatch(batch, alpha, lmbda, mu, p, v) ==
    IF BinomialRaises(p)
    \* line 219 raises
    THEN /\ last' = [Started(batch, alpha, lmbda, mu, v) EXCEPT !.raised = "ValueError"]
         /\ net' = net
    ELSE \E ber \in bernoulli(net.layers, p) :
            Ran(batch, alpha, lmbda, mu, v, ber,
                batch_gradient_descent(net, batch, alpha, lmbda, mu, v, ber))

(***************************************************************************)
(* A direct call of SGD.batch_gradient_descent.                            *)
(***************************************************************************)
BatchGradientDescent ==
    /\ pc = "call"
    /\ args.op = "batch"
    /\ RunBatch(args.batch, args.alpha, args.lmbda, args.mu, args.p, args.v)
    /\ outcome' = IF last'.raised = "" THEN "returned" ELSE last'.raised
    /\ pc' = "done"
    /\ UNCHANGED <<trainingData, args, fr, bs>>

(***************************************************************************)
(* SGD.train(net, trainingData, epochs, batchSize, alpha, lmbda, mu, p).   *)
(***************************************************************************)
\* random.shuffle: every order of the list
Shuffles(xs) ==
    {List([i \in 1..Len(xs) |-> xs[f[i]]]) : f \in Permutations(1..Len(xs))}

Min(a, b) == IF a <= b THEN a ELSE b

\* xs[i:i+size] for 0 <= i and 0 < size
Slice(xs, i, size) == SubSeq(xs, i + 1, Min(i + size, Len(xs)))

\* xrange(0, n, step) for 0 < step, as the number of its values 0, step, ...
XRangeLen(n, step) == (n + step - 1) \div step

\* mini-batches that leave out a last, shorter slice
MiniBatchesWhole(xs, n, batchSize) ==
    IF batchSize < 0 THEN <<>>
    ELSE List([k \in 1..(n \div batchSize) |->
                 Slice(xs, (k - 1) * batchSize, batchSize)])

\* lines 196-198: [trainingData[i:i+batchSize] for i in xrange(0, n, batchSize)];
\* xrange(0, n, step) is empty for a negative step
MiniBatches(xs, n, batchSize) ==
    IF batchSize < 0 THEN <<>>
    ELSE List([k \in 1..XRangeLen(n, batchSize) |->
                 Slice(xs, (k - 1) * batchSize, batchSize)])

\* lines 194-199: one more epoch begins
TrainEpoch ==
    /\ pc = "epoch"
    /\ fr.epoch < args.epochs
    /\ trainingData' \in Shuffles(trainingData)
    /\ IF args.batchSize = 0
       \* xrange() arg 3 must not be zero
       THEN /\ outcome' = "ValueError"
            /\ pc' = "done"
            /\ fr' = fr
       ELSE /\ fr' = [fr EXCEPT !.mini_batches =
                                    MiniBatches(trainingData', fr.n, args.batchSize),
                                !.v = ZeroV(net), !.i = 1]
            /\ pc' = "batch"
            /\ outcome' = outcome
    /\ UNCHANGED <<net, args, last, bs>>

\* lines 200-201: v = batch_gradient_descent(net, mini_batch, alpha, lmbda, mu, p, v)
TrainBatch ==
    /\ pc = "batch"
    /\ fr.i <= Len(fr.mini_batches)
    /\ RunBatch(fr.mini_batches[fr.i], args.alpha, args.lmbda, args.mu, args.p, fr.v)
    /\ IF last'.raised = ""
       THEN /\ fr' = [fr EXCEPT !.v = last'.v_out, !.i = fr.i + 1]
            /\ pc' = pc
            /\ outcome' = outcome
       ELSE /\ fr' = fr
            /\ pc' = "done"
            /\ outcome' = last'.raised
    /\ UNCHANGED <<trainingData, args, bs>>

\* lines 200, 194: the mini-batches of the epoch are used up
TrainEpochEnd ==
    /\ pc = "batch"
    /\ fr.i > Len(fr.mini_batches)
    /\ fr' = [fr EXCEPT !.epoch = fr.epoch + 1]
    /\ pc' = "epoch"
    /\ UNCHANGED <<net, trainingData, args, outcome, last, bs>>

\* line 194: xrange(epochs) is used up
TrainReturn ==
    /\ pc = "epoch"
    /\ fr.epoch >= args.epochs
    /\ outcome' = "returned"
    /\ pc' = "done"
    /\ UNCHANGED <<net, trainingData, args, fr, last, bs>>

(***************************************************************************)
(* A direct call of bernoulli(net.layers, p).                              *)
(***************************************************************************)
Bernoulli ==
    /\ pc = "call"
    /\ args.op = "bernoulli"
    /\ IF BinomialRaises(args.p)
       THEN bs' = bs /\ outcome' = "ValueError"
       ELSE bs' \in bernoulli(net.layers, args.p) /\ outcome' = "returned"
    /\ pc' = "done"
    /\ UNCHANGED <<net, trainingData, args, fr, last>>

NextTrain == TrainEpoch \/ TrainBatch \/ TrainEpochEnd \/ TrainReturn

Next == NextTrain \/ BatchGradientDescent \/ Bernoulli

Spec == Init /\ [][Next]_vars

SpecTrain == InitTrain /\ [][NextTrain]_vars

SpecBatch == InitBatch /\ [][BatchGradientDescent]_vars

SpecBernoulli == InitBernoulli /\ [][Bernoulli]_vars

(***************************************************************************)
(* The claims.                                                             *)
(***************************************************************************)
\* a direct call of batch_gradient_descent has returned
Returned1 == pc = "done" /\ args.op = "batch" /\ last.raised = ""

RECURSIVE SumNabla(_, _, _)
\* the sum of the gradients the first k backprop calls returned
SumNabla(calls, weights, k) ==
    IF k = 1 THEN (IF weights THEN calls[1].nabla_t ELSE calls[1].nabla_b)
    ELSE LayerWise(np_add, SumNabla(calls, weights, k - 1),
                   IF weights THEN calls[k].nabla_t ELSE calls[k].nabla_b)

RECURSIVE Concat(_, _)
Concat(xss, k) == IF k = 0 THEN <<>> ELSE Concat(xss, k - 1) \o xss[k]

Count(xs, e) == Cardinality({i \in 1..Len(xs) : xs[i] = e})

IsPermutation(xs, ys) ==
    /\ Len(xs) = Len(ys)
    /\ \A i \in 1..Len(xs) : Count(xs, xs[i]) = Count(ys, xs[i])

AllOnes(row) == \A i \in 1..Len(row) : row[i] = 1

ShapeOfTheta(n, l) == <<n.layers[l + 1], n.layers[l]>>

ShapeOfBias(n, l) == <<n.layers[l + 1], 1>>

ShapesAre(xs, n, weights) ==
    /\ Len(xs) = NumTheta(n)
    /\ \A l \in 1..Len(xs) :
          Shape(xs[l]) = IF weights THEN ShapeOfTheta(n, l) ELSE ShapeOfBias(n, l)

\* C1: in SGD.train the velocity is set to zero once, at the start of the run,
\* and never again: a mini-batch step that is not the first of the run takes
\* in the velocity the step before it returned, also across epochs.
C1_VelocityCarried ==
    (args.op = "train" /\ pc = "batch" /\ fr.i <= Len(fr.mini_batches)) =>
        fr.v = IF last.count = 0 THEN ZeroV(net) ELSE last.v_out

\* C2: batch_gradient_descent draws one mask per example: a batch of k
\* examples makes k calls of bernoulli, and the backprop call of example j
\* uses the mask of draw j and no other.
C2_MaskPerExample ==
    Returned1 =>
        /\ Len(last.draws) = Len(last.batch)
        /\ \A j \in 1..Len(last.calls) :
              j <= Len(last.draws) /\ last.calls[j].ber = last.draws[j]

\* C3: for a batch of m >= 1 examples batch_gradient_descent returns
\* v' = mu*v + alpha*(G/m + lmbda*W), G the sum of the weight gradients of the
\* examples, and leaves the weights at W - v'.  Stated without the division:
\* m*(v' - mu*v - alpha*lmbda*W) = alpha*G.
C3_VelocityRule ==
    (Returned1 /\ Len(last.batch) >= 1) =>
        /\ ScaleL(Len(last.batch),
                  LayerWise(np_sub,
                            LayerWise(np_sub, last.v_out, ScaleL(last.mu, last.v_in)),
                            ScaleL(last.alpha * last.lmbda, last.net_in.theta)))
             = ScaleL(last.alpha, SumNabla(last.calls, TRUE, Len(last.calls)))
        /\ net.theta = LayerWise(np_sub, last.net_in.theta, last.v_out)

\* C4: the bias update is b <- b - alpha*(B/m), B the plain sum of the bias
\* gradients backprop returned: no mask, no weight decay, no momentum.
\* Stated without the division: m*(b - b') = alpha*B.
C4_BiasRule ==
    (Returned1 /\ Len(last.batch) >= 1) =>
        ScaleL(Len(last.batch), LayerWise(np_sub, last.net_in.biases, net.biases))
            = ScaleL(last.alpha, SumNabla(last.calls, FALSE, Len(last.calls)))

\* C5: a call of SGD.train or of SGD.batch_gradient_descent with an empty
\* mini-batch, a batch size <= 0 or a keep-probability outside (0, 1] ends in
\* an error, and neither the network nor the order of the training set
\* changes at any point of the call.
C5_RejectedUnchanged ==
    (\/ args.op = "train" /\ args.batchSize <= 0
     \/ args.op = "batch" /\ Len(args.batch) = 0
     \/ args.op \in {"train", "batch"} /\ (args.p <= 0 \/ args.p > 2)) =>
        /\ net = args.net0
        /\ trainingData = args.data0
        /\ pc = "done" => outcome \in {"ValueError", "ZeroDivisionError"}

\* C6: in every epoch of SGD.train with batchSize >= 1 the mini-batches, put
\* end to end in the order they are fed, are a permutation of the original
\* training set; each is a contiguous slice of the shuffled set with exactly
\* batchSize examples, but the last, which has between 1 and batchSize.
C6_Partition ==
    (args.op = "train" /\ args.batchSize >= 1 /\ pc = "batch") =>
        /\ Concat(fr.mini_batches, Len(fr.mini_batches)) = trainingData
        /\ IsPermutation(Concat(fr.mini_batches, Len(fr.mini_batches)), args.data0)
        /\ \A k \in 1..Len(fr.mini_batches) :
              /\ Len(fr.mini_batches[k]) \in 1..args.batchSize
              /\ k < Len(fr.mini_batches) => Len(fr.mini_batches[k]) = args.batchSize
        /\ fr.i \in 1..(Len(fr.mini_batches) + 1)
        /\ fr.i > 1 => last.batch = fr.mini_batches[fr.i - 1]

\* an epoch after the first has fed two mini-batches of a reordered set of
\* three examples, the second one short
C6_Witness ==
    /\ args.op = "train" /\ pc = "batch"
    /\ args.batchSize = 2
    /\ fr.epoch = 1
    /\ Len(fr.mini_batches) = 2
    /\ Len(fr.mini_batches[2]) = 1
    /\ fr.i = 3
    /\ trainingData # args.data0

\* C7: bernoulli(layers, p) returns one 0/1 row per layer, the row of layer l
\* with layers[l] entries; the row of the output layer is all ones for every
\* p, and for p = 1.0 every row is all ones.
C7_MaskShape ==
    (args.op = "bernoulli" /\ pc = "done" /\ outcome = "returned") =>
        /\ Len(bs) = Len(net.layers)
        /\ \A l \in 1..Len(bs) :
              /\ Len(bs[l]) = net.layers[l]
              /\ \A i \in 1..Len(bs[l]) : bs[l][i] \in {0, 1}
        /\ AllOnes(bs[Len(bs)])
        /\ args.p = 2 => \A l \in 1..Len(bs) : AllOnes(bs[l])

\* a call with p = 0.5 on three layers has returned a mask that drops a
\* hidden neuron
C7_Witness ==
    /\ args.op = "bernoulli" /\ pc = "done" /\ outcome = "returned"
    /\ args.p = 1
    /\ Len(bs) = 3
    /\ ~AllOnes(bs[2])
    /\ AllOnes(bs[3])

\* C8: for every transition l the weight gradient of backprop and the
\* weight-gradient accumulator have the shape of weight matrix l, the bias
\* gradient and the bias-gradient accumulator the shape of bias vector l,
\* and after a batch step the weights and biases still have these shapes.
C8_ShapesPreserved ==
    Returned1 =>
        /\ ShapesAre(last.delta_t0, args.net0, TRUE)
        /\ ShapesAre(last.delta_b0, args.net0, FALSE)
        /\ \A j \in 1..Len(last.calls) :
              ~last.calls[j].raised =>
                  /\ ShapesAre(last.calls[j].nabla_t, args.net0, TRUE)
                  /\ ShapesAre(last.calls[j].nabla_b, args.net0, FALSE)
        /\ ShapesAre(last.delta_t, args.net0, TRUE)
        /\ ShapesAre(last.delta_b, args.net0, FALSE)
        /\ ShapesAre(net.theta, args.net0, TRUE)
        /\ ShapesAre(net.biases, args.net0, FALSE)

\* C9: in backprop the error of a hidden layer l comes from the error of
\* layer l+1 through the transpose of the matrix the forward pass multiplied
\* by on the way from l to l+1: mask(l+1) on W(l+1) + mu*v(l+1).
C9_SameMatrixBack ==
    (args.op = "batch" /\ pc = "done") =>
        \A j \in 1..Len(last.calls) :
            ~last.calls[j].raised =>
                \A l \in 1..Len(last.calls[j].backward) :
                    last.calls[j].backward[l] = last.calls[j].forward[l + 1]

\* C10: in backprop the first activation is x times the mask of the input
\* layer (entry 0 of the masks), and the mask entry l of a later layer goes
\* on the weights into layer l, matrix l.
C10_InputMask ==
    (args.op = "batch" /\ pc = "done") =>
        \A j \in 1..Len(last.calls) :
            /\ last.calls[j].al[1] = np_multiply(Col(last.calls[j].ber[1]), last.calls[j].x)
            /\ ~last.calls[j].raised =>
                  \A l \in 1..NumTheta(args.net0) :
                      last.calls[j].forward[l] =
                          np_multiply(Col(last.calls[j].ber[l + 1]),
                                      np_add(args.net0.theta[l],
                                             Scale(args.mu, args.v[l])))

====
